---------------------------- MODULE Spec2Model ----------------------------
(***************************************************************************)
(* Model of ensembl.brc4.runnable.manifest_stats: the Feature Biotype      *)
(* Analyzer (parse_gff3 / increment_biotype), the Sequence-Region Analyzer *)
(* (get_seq_region_stats) and the Report Assembler (run).                  *)
(*                                                                         *)
(* Three specifications share the definitions of the analyzers:            *)
(*   SpecGff  one call of parse_gff3, one step per increment_biotype call  *)
(*   SpecSeq  one call of get_seq_region_stats, one step per descriptor    *)
(*   Spec     one call of run, one step per statement of run               *)
(***************************************************************************)
EXTENDS Integers, Sequences, FiniteSets, TLC

VARIABLES
    records,        \* parse_gff3: what GFF.parse yields, a sequence of records
    nvisited,       \* parse_gff3: number of increment_biotype calls made so far
    biotypes,       \* parse_gff3: the dict biotypes
    gff_stats,      \* parse_gff3: the returned list
    gff_pc,         \* parse_gff3: "idle", "loop", "returned"
    seq_regions,    \* get_seq_region_stats: the list get_json returned
    seq_i,          \* get_seq_region_stats: number of descriptors consumed
    coord_systems,  \* get_seq_region_stats: the dict coord_systems (insertion ordered)
    circular,       \* get_seq_region_stats: the counter circular
    locations,      \* get_seq_region_stats: the list locations
    codon_tables,   \* get_seq_region_stats: the list codon_tables
    seq_stats,      \* get_seq_region_stats: the returned list
    seq_pc,         \* get_seq_region_stats: "idle", "loop", "stats", "returned", "raised"
    pc,             \* run: the statement run is at
    param,          \* run: the parameters of the job ("manifest" may be missing)
    manifest,       \* run: the manifest, raw after Init, resolved after get_manifest
    stats,          \* run: the list stats
    stats_txt,      \* the file stats.txt next to the manifest (Absent or its text)
    prior_txt,      \* what stats.txt was when run started
    calls           \* run: the calls made so far, in order

gffVars == <<records, nvisited, biotypes, gff_stats, gff_pc>>
seqVars == <<seq_regions, seq_i, coord_systems, circular, locations, codon_tables,
             seq_stats, seq_pc>>
runVars == <<pc, param, manifest, stats, stats_txt, prior_txt, calls>>
vars == <<gffVars, seqVars, runVars>>

(***************************************************************************)
(* Bounds of the inputs.                                                   *)
(***************************************************************************)
MaxFeatures == 4      \* features of all nesting levels in one gff3 stream
MaxDepth == 4         \* nesting levels a feature tree may have (the walk sees 3)
MaxSeqRegions == 2    \* descriptors in one seq_region list
MaxLength == 3        \* low part of a sequence length

(***************************************************************************)
(* Generic helpers: Python lists, dicts and formatting.                    *)
(***************************************************************************)
EmptyDict == <<>>

RECURSIVE Concat(_)
\* list.__iadd__ / nested for loops: the concatenation of a sequence of sequences
Concat(ss) == IF ss = <<>> THEN <<>> ELSE Head(ss) \o Concat(Tail(ss))

RECURSIVE Filter(_, _)
\* [x for x in s if x["source"] == src]
Filter(s, src) ==
    IF s = <<>> THEN <<>>
    ELSE (IF Head(s).source = src THEN <<Head(s)>> ELSE <<>>) \o Filter(Tail(s), src)

\* "fmt" % vals: a formatted line is kept as its format and its arguments
Format(fmt, vals) == [fmt |-> fmt, vals |-> vals]


(***************************************************************************)
(* A Python dict keeps insertion order: a sequence of [key, value] items.  *)
(***************************************************************************)
\* list(d.keys())
Keys(d) == [i \in DOMAIN d |-> d[i].key]

\* k in d
Has(d, k) == \E i \in DOMAIN d : d[i].key = k

\* d[k], for k in d
Get(d, k) == d[CHOOSE i \in DOMAIN d : d[i].key = k].value

\* d[k] = v: a new key goes last, an old key keeps its place
Put(d, k, v) ==
    IF Has(d, k)
    THEN [i \in DOMAIN d |-> IF d[i].key = k THEN [key |-> k, value |-> v] ELSE d[i]]
    ELSE Append(d, [key |-> k, value |-> v])

(***************************************************************************)
(* Feature Biotype Analyzer: the input.                                    *)
(* A feature is [type, id, sub_features]; a record is [features].  The     *)
(* streams are enumerated from a depth-annotated preorder listing, the     *)
(* i-th feature of the stream having the id ToString(i).                   *)
(***************************************************************************)
\* the code points of the biotype names a stream may use
Codepoints ==
    [gene |-> <<103, 101, 110, 101>>,
     mRNA |-> <<109, 82, 78, 65>>,
     CDS  |-> <<67, 68, 83>>]

BiotypeNames == DOMAIN Codepoints

RECURSIVE SubtreeLen(_, _)
\* the number of leading nodes that lie deeper than depth d
SubtreeLen(nodes, d) ==
    IF nodes = <<>> \/ Head(nodes).depth <= d THEN 0
    ELSE 1 + SubtreeLen(Tail(nodes), d)

RECURSIVE BuildFeatures(_, _)
\* the features of depth d of a preorder listing, each with its sub_features
BuildFeatures(nodes, d) ==
    IF nodes = <<>> THEN <<>>
    ELSE LET rest == Tail(nodes)
             k == SubtreeLen(rest, d)
         IN <<[type |-> Head(nodes).type,
               id |-> Head(nodes).id,
               sub_features |-> BuildFeatures(SubSeq(rest, 1, k), d + 1)]>>
            \o BuildFeatures(SubSeq(rest, k + 1, Len(rest)), d)

\* depth[from..to] is a preorder of trees: it starts at depth 1 and descends one
\* level at a time
ValidPreorder(depth, from, to) ==
    /\ from <= to => depth[from] = 1
    /\ \A i \in from..(to - 1) : depth[i + 1] <= depth[i] + 1

\* the stream of m features with the given depths and types, the first cut of them
\* in the first record and the others in a second one, which single leaves out
Stream(m, cut, depth, type, single) ==
    LET nodes == [i \in 1..m |-> [depth |-> depth[i], type |-> type[i], id |-> ToString(i)]]
        rec1 == [features |-> BuildFeatures(SubSeq(nodes, 1, cut), 1)]
        rec2 == [features |-> BuildFeatures(SubSeq(nodes, cut + 1, m), 1)]
    IN IF single THEN <<rec1>> ELSE <<rec1, rec2>>

\* records is a stream of at most n features in one or two records
GffInput(n) ==
    \E m \in 0..n : \E cut \in 0..m : \E single \in {cut = m, FALSE} :
       \E depth \in [1..m -> 1..MaxDepth] :
          /\ ValidPreorder(depth, 1, cut)
          /\ ValidPreorder(depth, cut + 1, m)
          /\ \E type \in [1..m -> BiotypeNames] :
                records = Stream(m, cut, depth, type, single)

(***************************************************************************)
(* Feature Biotype Analyzer: increment_biotype and parse_gff3.             *)
(***************************************************************************)
\* increment_biotype with the bug of overwriting the example at every occurrence
increment_biotype_overwrite(bts, feature) ==
    LET biotype == feature.type
        count == IF Has(bts, biotype) THEN Get(bts, biotype).count ELSE 0
    IN Put(bts, biotype, [count |-> count + 1, example |-> feature.id])

\* increment_biotype: a new biotype enters with count 0 and this feature's id as
\* its example; the count of the biotype is then incremented
increment_biotype(bts, feature) ==
    LET biotype == feature.type
        entered == IF ~Has(bts, biotype)
                   THEN Put(bts, biotype, [count |-> 0, example |-> feature.id])
                   ELSE bts
    IN Put(entered, biotype, [Get(entered, biotype) EXCEPT !.count = @ + 1])

\* the walk below feat2 with the bug of descending one level further
VisitFeat2_deeper(feat2) ==
    <<feat2>> \o Concat([k \in DOMAIN feat2.sub_features |->
                            <<feat2.sub_features[k]>> \o feat2.sub_features[k].sub_features])

\* the features handed to increment_biotype for feat2: itself, then each feat3
VisitFeat2(feat2) == <<feat2>> \o feat2.sub_features

\* the features handed to increment_biotype for feat: itself, then each feat2's
VisitFeat(feat) ==
    <<feat>> \o Concat([j \in DOMAIN feat.sub_features |-> VisitFeat2(feat.sub_features[j])])

\* the features handed to increment_biotype for the whole stream, in call order
Visits(recs) ==
    Concat([r \in DOMAIN recs |->
              Concat([i \in DOMAIN recs[r].features |-> VisitFeat(recs[r].features[i])])])

\* a < b for Python strings: the first differing code point decides, a proper prefix is smaller
StrLess(a, b) ==
    LET x == Codepoints[a]
        y == Codepoints[b]
    IN \E i \in 1..(Len(x) + 1) :
          /\ i <= Len(y)
          /\ \A j \in 1..(i - 1) : x[j] = y[j]
          /\ (i = Len(x) + 1 \/ x[i] < y[i])

\* the keys left in dict order: the bug of rendering without the sort
sorted_not(keys) == keys

RECURSIVE sorted(_)
\* sorted(keys): ascending, smallest first
sorted(keys) ==
    IF keys = <<>> THEN <<>>
    ELSE LET m == CHOOSE i \in DOMAIN keys : \A j \in DOMAIN keys : ~StrLess(keys[j], keys[i])
         IN <<keys[m]>> \o sorted(SubSeq(keys, 1, m - 1) \o SubSeq(keys, m + 1, Len(keys)))

\* lines 153-158: the tally in sorted key order, one formatted line per biotype
RenderBiotypes(bts) ==
    LET names == sorted(Keys(bts))
    IN [n \in DOMAIN names |->
          Format("%9d\t%20s\tID = %s",
                 <<Get(bts, names[n]).count, names[n], Get(bts, names[n]).example>>)]

RECURSIVE Tally(_, _)
\* the tally after increment_biotype was called on each of feats in turn
Tally(bts, feats) ==
    IF feats = <<>> THEN bts
    ELSE Tally(increment_biotype(bts, Head(feats)), Tail(feats))

\* parse_gff3 as a whole
parse_gff3(recs) == RenderBiotypes(Tally(EmptyDict, Visits(recs)))

\* one call of increment_biotype in the loops of parse_gff3
ParseGff3Visit ==
    /\ gff_pc = "loop"
    /\ LET visits == Visits(records)
       IN /\ nvisited < Len(visits)
          /\ biotypes' = increment_biotype(biotypes, visits[nvisited + 1])
    /\ nvisited' = nvisited + 1
    /\ UNCHANGED <<records, gff_stats, gff_pc, seqVars, runVars>>

\* the stream is exhausted: sort, render and return
ParseGff3Return ==
    /\ gff_pc = "loop"
    /\ nvisited = Len(Visits(records))
    /\ gff_stats' = RenderBiotypes(biotypes)
    /\ gff_pc' = "returned"
    /\ UNCHANGED <<records, nvisited, biotypes, seqVars, runVars>>


(***************************************************************************)
(* The parts of the state a specification leaves alone.                    *)
(***************************************************************************)
\* the state of a file: whether it exists and, if so, its text
File(text) == [exists |-> TRUE, text |-> text]

Absent == [exists |-> FALSE, text |-> <<>>]

GffIdle ==
    /\ records = <<>>
    /\ nvisited = 0
    /\ biotypes = EmptyDict
    /\ gff_stats = <<>>
    /\ gff_pc = "idle"

SeqIdle ==
    /\ seq_regions = <<>>
    /\ seq_i = 0
    /\ coord_systems = EmptyDict
    /\ circular = 0
    /\ locations = <<>>
    /\ codon_tables = <<>>
    /\ seq_stats = <<>>
    /\ seq_pc = "idle"

RunIdle ==
    /\ pc = "idle"
    /\ param = EmptyDict
    /\ manifest = EmptyDict
    /\ stats = <<>>
    /\ stats_txt = Absent
    /\ prior_txt = Absent
    /\ calls = <<>>

(***************************************************************************)
(* SpecGff: one call of parse_gff3 on any stream within the bounds.        *)
(***************************************************************************)
InitGff ==
    /\ GffInput(MaxFeatures)
    /\ nvisited = 0
    /\ biotypes = EmptyDict
    /\ gff_stats = <<>>
    /\ gff_pc = "loop"
    /\ SeqIdle
    /\ RunIdle

NextGff == ParseGff3Visit \/ ParseGff3Return

SpecGff == InitGff /\ [][NextGff]_vars


(***************************************************************************)
(* Feature Biotype Analyzer: what the claims speak of.                     *)
(***************************************************************************)
RECURSIVE PreorderUpTo(_, _)
\* the features of a forest down to nesting level d, parents before children
PreorderUpTo(features, d) ==
    IF d = 0 \/ features = <<>> THEN <<>>
    ELSE <<Head(features)>> \o PreorderUpTo(Head(features).sub_features, d - 1)
         \o PreorderUpTo(Tail(features), d)

\* the top-level features of every record, their children and their grandchildren
ThreeLevels == Concat([r \in DOMAIN records |-> PreorderUpTo(records[r].features, 3)])

\* every feature of the stream, however deep
AllLevels == Concat([r \in DOMAIN records |-> PreorderUpTo(records[r].features, MaxDepth + 1)])

\* the positions in feats of the features of biotype b
Occurrences(feats, b) == {i \in DOMAIN feats : feats[i].type = b}

Min(S) == CHOOSE x \in S : \A y \in S : x <= y

Max(S) == CHOOSE x \in S : \A y \in S : y <= x

\* the count the tally holds for biotype b, 0 when it has no entry
CountOf(bts, b) == IF Has(bts, b) THEN Get(bts, b).count ELSE 0

RECURSIVE SumCounts(_)
SumCounts(bts) == IF bts = <<>> THEN 0 ELSE Head(bts).value.count + SumCounts(Tail(bts))

\* C1 (as amended): after every visit, and in the lines returned, the example of a
\* biotype is the id of the FIRST visited feature of that biotype and its count is
\* the number of visited features of that biotype: later occurrences increment the
\* count and leave the example alone.
C1_ExampleIsFirstSeen ==
    LET three == ThreeLevels
        visited == SubSeq(three, 1, nvisited)
    IN /\ nvisited <= Len(three)
       /\ \A b \in BiotypeNames :
             LET occ == Occurrences(visited, b)
             IN IF occ = {} THEN ~Has(biotypes, b)
                ELSE /\ Has(biotypes, b)
                     /\ Get(biotypes, b).count = Cardinality(occ)
                     /\ Get(biotypes, b).example = visited[Min(occ)].id
       /\ gff_pc = "returned" =>
             \A n \in DOMAIN gff_stats :
                gff_stats[n].vals[3] = three[Min(Occurrences(three, gff_stats[n].vals[2]))].id

\* C1 as stated: the example reported after the whole stream is the id of the most
\* recently visited feature of the biotype.
C1_ExampleIsLastSeen ==
    gff_pc = "returned" =>
       LET three == ThreeLevels
       IN \A n \in DOMAIN gff_stats :
             gff_stats[n].vals[3] = three[Max(Occurrences(three, gff_stats[n].vals[2]))].id

\* C1 witness: a stream was consumed in which some biotype occurred more than once
C1_Witness ==
    /\ gff_pc = "returned"
    /\ \E n \in DOMAIN gff_stats : gff_stats[n].vals[1] >= 2

\* C4, the state part: the counts sum to the number of visits made, no entry has a
\* count below 1, and when the stream is consumed the visits made are exactly the
\* features of the first three levels.
C4_CountsInv ==
    /\ SumCounts(biotypes) = nvisited
    /\ \A i \in DOMAIN biotypes : biotypes[i].value.count >= 1
    /\ LET three == Len(ThreeLevels)
       IN nvisited <= three /\ (gff_pc = "returned" => nvisited = three)

\* C4, the step part: a visit increments exactly one entry by exactly one
C4_VisitStep ==
    nvisited' # nvisited =>
       \E b \in BiotypeNames :
          /\ b = ThreeLevels[nvisited'].type
          /\ CountOf(biotypes', b) = CountOf(biotypes, b) + 1
          /\ \A c \in BiotypeNames \ {b} : CountOf(biotypes', c) = CountOf(biotypes, c)

\* C4: the sum of the counts equals the number of features visited so far, the
\* visited features being exactly those of the first three levels; each visit
\* increments exactly one entry by one and every entry has count >= 1.
C4_SumOfCounts == [](C4_CountsInv) /\ [][C4_VisitStep]_vars

\* C4 witness: a consumed stream with a feature on the fourth level, which was not counted
C4_Witness ==
    /\ gff_pc = "returned"
    /\ nvisited >= 3
    /\ Len(AllLevels) > nvisited

\* C9: the returned lines are one per distinct biotype visited, each with the number
\* of its occurrences, in strictly ascending order of biotype name.
C9_SortedLines ==
    gff_pc = "returned" =>
       LET three == ThreeLevels
           types == {three[i].type : i \in DOMAIN three}
       IN /\ {gff_stats[n].vals[2] : n \in DOMAIN gff_stats} = types
          /\ Len(gff_stats) = Cardinality(types)
          /\ \A n \in DOMAIN gff_stats :
                /\ gff_stats[n].fmt = "%9d\t%20s\tID = %s"
                /\ gff_stats[n].vals[1] = Cardinality(Occurrences(three, gff_stats[n].vals[2]))
          /\ \A m, n \in DOMAIN gff_stats :
                m < n => StrLess(gff_stats[m].vals[2], gff_stats[n].vals[2])

\* C9 witness: the stream mRNA, gene, mRNA gave the lines gene (1) and mRNA (2)
C9_Witness ==
    /\ gff_pc = "returned"
    /\ [i \in DOMAIN ThreeLevels |-> ThreeLevels[i].type] = <<"mRNA", "gene", "mRNA">>
    /\ Len(gff_stats) = 2
    /\ gff_stats[1].vals[1] = 1 /\ gff_stats[1].vals[2] = "gene"
    /\ gff_stats[2].vals[1] = 2 /\ gff_stats[2].vals[2] = "mRNA"


(***************************************************************************)
(* Numbers.  Python integers are unbounded and statistics.mean goes        *)
(* through a double, so a number is [hi, num, den], standing for           *)
(* hi * 2^54 + num / den with 0 <= num / den < 2^54; an int has den = 1.   *)
(***************************************************************************)
IntNum(n) == [hi |-> 0, num |-> n, den |-> 1]

\* a <= b
NumLeq(a, b) == a.hi < b.hi \/ (a.hi = b.hi /\ a.num * b.den <= b.num * a.den)

\* a + b, for ints
NumAdd(a, b) == [hi |-> a.hi + b.hi, num |-> a.num + b.num, den |-> 1]

RECURSIVE sum(_)
\* sum(lengths)
sum(lengths) == IF lengths = <<>> THEN IntNum(0) ELSE NumAdd(Head(lengths), sum(Tail(lengths)))

\* min(lengths), for a non-empty list
min(lengths) ==
    lengths[CHOOSE i \in DOMAIN lengths : \A j \in DOMAIN lengths : NumLeq(lengths[i], lengths[j])]

\* max(lengths), for a non-empty list
max(lengths) ==
    lengths[CHOOSE i \in DOMAIN lengths : \A j \in DOMAIN lengths : NumLeq(lengths[j], lengths[i])]

\* float(Fraction): the double nearest to hi * 2^54 + num / den, ties to the even
\* mantissa.  Below 2^31 a double is within 2^-21 of the fraction and on the same
\* side of every integer, so the fraction stands for it.  In [2^54, 2^55) doubles
\* are the multiples of 4, those with an even mantissa the multiples of 8.
ToDouble(hi, num, den) ==
    IF hi = 0 THEN [hi |-> 0, num |-> num, den |-> den]
    ELSE LET below == ((num \div den) \div 4) * 4
             rest == num - below * den
             nearest == IF rest < 2 * den THEN below
                        ELSE IF rest > 2 * den THEN below + 4
                        ELSE IF below % 8 = 0 THEN below ELSE below + 4
         IN [hi |-> hi, num |-> nearest, den |-> 1]

\* statistics.mean(lengths) for ints that share their hi part: the exact quotient,
\* an int when the division is exact and a double otherwise
mean(lengths) ==
    LET total == sum(lengths)
        n == Len(lengths)
    IN IF total.num % n = 0
       THEN [hi |-> total.hi \div n, num |-> total.num \div n, den |-> 1]
       ELSE ToDouble(total.hi \div n, total.num, n)

\* "%d" % x: an int as it is, a float truncated
PercentD(x) == [hi |-> x.hi, num |-> x.num \div x.den, den |-> 1]

(***************************************************************************)
(* Sequence-Region Analyzer: the input.  A descriptor is a JSON object, a  *)
(* function whose domain is the set of keys it carries.                    *)
(***************************************************************************)
GenBank(name) == [source |-> "GenBank", name |-> name]

INSDC(name) == [source |-> "INSDC", name |-> name]

\* the synonym lists a descriptor may carry
SynonymLists ==
    { <<>>,
      <<INSDC("I1")>>,
      <<GenBank("CM000001.1")>>,
      <<GenBank("")>>,
      <<INSDC("I1"), GenBank("CM000001.1")>>,
      <<GenBank("CM000001.1"), GenBank("CM000002.1")>>,
      <<GenBank(""), GenBank("CM000002.1")>> }

\* the lengths of the descriptors of one input (they share their hi part)
Lengths(hi) == {[hi |-> hi, num |-> l, den |-> 1] : l \in 0..MaxLength}

Levels == {"chromosome", "scaffold"}

\* the optional attributes a descriptor may carry besides the three required ones
Attributes ==
    { a @@ b @@ c : a \in {EmptyDict, "circular" :> TRUE},
                    b \in {EmptyDict, "codon_table" :> "4"},
                    c \in {EmptyDict, "location" :> "mitochondrial_chromosome"} }

Required(name, level, length) ==
    ("name" :> name) @@ ("coord_system_level" :> level) @@ ("length" :> length)

\* f without the key k
Without(f, k) == [x \in (DOMAIN f) \ {k} |-> f[x]]

\* the descriptors of one input: plain ones in each level and length, ones with
\* each combination of optional attributes, ones with each synonym list (with and
\* without a name of their own), and ones that lack a required key
Descriptors(hi) ==
    LET one == [hi |-> hi, num |-> 1, den |-> 1]
        plain == {Required("1", v, l) : v \in Levels, l \in Lengths(hi)}
        special == {Required("chr1", "chromosome", one) @@ a : a \in Attributes}
        named == {Required("chr1", "chromosome", one) @@ ("synonyms" :> y)
                    @@ ("location" :> "nucleomorph_chromosome") : y \in SynonymLists}
                 \cup {Required("chr1", "scaffold", one) @@ ("codon_table" :> "11")
                         @@ ("synonyms" :> <<GenBank("CM000001.1")>>)}
        whole == plain \cup special \cup named
        bare == Required("chr1", "chromosome", one)
        lacking == {Without(d, "name") : d \in named \cup {bare}}
                   \cup {Without(d, k) : d \in {bare, bare @@ ("synonyms" :> <<GenBank("CM000001.1")>>)},
                                         k \in {"coord_system_level", "length"}}
    IN whole \cup lacking

\* the lists of at most n elements of S
ListsUpTo(S, n) == UNION {[1..m -> S] : m \in 0..n}


(***************************************************************************)
(* Sequence-Region Analyzer: get_seq_region_stats.                         *)
(***************************************************************************)
\* line 78: False when there is no synonym list, else its GenBank entries; both
\* False and the empty list are falsy
genbank(seqr) ==
    IF "synonyms" \in DOMAIN seqr THEN Filter(seqr["synonyms"], "GenBank") ELSE <<>>

\* the truth value Python gives a string
Truthy(str) == str # ""

\* line 79: genbank and genbank[0]["name"] or seqr["name"]
seqr_name(seqr) ==
    IF genbank(seqr) # <<>> /\ Truthy(genbank(seqr)[1]["name"])
    THEN genbank(seqr)[1]["name"]
    ELSE seqr["name"]

\* the loop body with the bug of reading seqr["name"] whatever the synonyms are
KeyError_eager(seqr) ==
    \/ "name" \notin DOMAIN seqr
    \/ "coord_system_level" \notin DOMAIN seqr
    \/ "length" \notin DOMAIN seqr

\* the loop body raises KeyError: seqr["name"] is read only when line 79 falls
\* through to it, seqr["coord_system_level"] and seqr["length"] always
KeyError(seqr) ==
    \/ ~(genbank(seqr) # <<>> /\ Truthy(genbank(seqr)[1]["name"])) /\ "name" \notin DOMAIN seqr
    \/ "coord_system_level" \notin DOMAIN seqr
    \/ "length" \notin DOMAIN seqr

\* lines 81-84 with the bug of starting the group afresh at every descriptor
AddLength_reset(cs, seqr) ==
    Put(cs, seqr["coord_system_level"], <<seqr["length"]>>)

\* lines 81-84: the length joins the list of its level, created on first sight
AddLength(cs, seqr) ==
    LET coord_level == seqr["coord_system_level"]
        created == IF ~Has(cs, coord_level) THEN Put(cs, coord_level, <<>>) ELSE cs
    IN Put(created, coord_level, Append(Get(created, coord_level), seqr["length"]))

\* lines 100-108: the five rows of one group, "%9d\t%s" % (count, name)
GroupRows(lengths) ==
    LET stat_counts == << [key |-> "Number of sequences", value |-> IntNum(Len(lengths))],
                          [key |-> "Sequence length sum", value |-> sum(lengths)],
                          [key |-> "Sequence length minimum", value |-> min(lengths)],
                          [key |-> "Sequence length mean", value |-> mean(lengths)],
                          [key |-> "Sequence length maximum", value |-> max(lengths)] >>
    IN [i \in DOMAIN stat_counts |->
          Format("%9d\t%s", <<PercentD(stat_counts[i].value), stat_counts[i].key>>)]

\* lines 110-122 with the bug of giving the codon tables a condition of their own
Special_codon(circ, locs, tables) ==
    IF circ > 0 \/ locs # <<>> \/ tables # <<>>
    THEN <<Format("\nSpecial", <<>>)>>
         \o (IF circ > 0 THEN <<Format("%9d\t%s", <<circ, "circular sequences">>)>> ELSE <<>>)
         \o (IF locs # <<>>
             THEN <<Format("%9d\t%s", <<Len(locs), "sequences with location">>)>>
                  \o [i \in DOMAIN locs |-> Format("\t\t\t%s", <<locs[i]>>)]
             ELSE <<>>)
         \o (IF tables # <<>>
             THEN <<Format("%9d\t%s", <<Len(tables), "sequences with codon_table">>)>>
                  \o [i \in DOMAIN tables |-> Format("\t\t\t%s", <<tables[i]>>)]
             ELSE <<>>)
    ELSE <<>>

\* lines 110-122: the Special section
Special(circ, locs, tables) ==
    IF circ > 0 \/ locs # <<>>
    THEN <<Format("\nSpecial", <<>>)>>
         \o (IF circ > 0 THEN <<Format("%9d\t%s", <<circ, "circular sequences">>)>> ELSE <<>>)
         \o (IF locs # <<>>
             THEN <<Format("%9d\t%s", <<Len(locs), "sequences with location">>)>>
                  \o [i \in DOMAIN locs |-> Format("\t\t\t%s", <<locs[i]>>)]
             ELSE <<>>)
         \o (IF tables # <<>>
             THEN <<Format("%9d\t%s", <<Len(tables), "sequences with codon_table">>)>>
                  \o [i \in DOMAIN tables |-> Format("\t\t\t%s", <<tables[i]>>)]
             ELSE <<>>)
    ELSE <<>>

\* lines 94-126: the report section
RenderSeqRegions(file_name, cs, circ, locs, tables) ==
    <<Format(file_name, <<>>), Format("Total coord_systems %d", <<Len(cs)>>)>>
    \o Concat([g \in DOMAIN cs |->
                 <<Format("\nCoord_system: %s", <<cs[g].key>>)>> \o GroupRows(cs[g].value)])
    \o Special(circ, locs, tables)
    \o <<Format("\n", <<>>)>>

\* the name of the file the seq_region entry of the manifest points to
SeqRegionFile == "seq_region.json"

\* one pass of the loop of lines 76-91, which a missing key ends with KeyError
SeqRegionLoop ==
    /\ seq_pc = "loop"
    /\ seq_i < Len(seq_regions)
    /\ LET seqr == seq_regions[seq_i + 1]
       IN IF KeyError(seqr)
          THEN /\ seq_pc' = "raised"
               /\ UNCHANGED <<seq_i, coord_systems, circular, locations, codon_tables>>
          ELSE /\ seq_pc' = "loop"
               /\ seq_i' = seq_i + 1
               /\ coord_systems' = AddLength(coord_systems, seqr)
               /\ circular' = IF "circular" \in DOMAIN seqr THEN circular + 1 ELSE circular
               /\ codon_tables' =
                     IF "codon_table" \in DOMAIN seqr
                     THEN Append(codon_tables,
                                 Format("%s = %s", <<seqr_name(seqr), seqr["codon_table"]>>))
                     ELSE codon_tables
               /\ locations' =
                     IF "location" \in DOMAIN seqr
                     THEN Append(locations,
                                 Format("%s = %s", <<seqr_name(seqr), seqr["location"]>>))
                     ELSE locations
    /\ UNCHANGED <<seq_regions, seq_stats, gffVars, runVars>>

\* lines 93-126: the list is consumed, the section is rendered and returned
SeqRegionReturn ==
    /\ seq_pc = "loop"
    /\ seq_i = Len(seq_regions)
    /\ seq_stats' = RenderSeqRegions(SeqRegionFile, coord_systems, circular, locations,
                                     codon_tables)
    /\ seq_pc' = "returned"
    /\ UNCHANGED <<seq_regions, seq_i, coord_systems, circular, locations, codon_tables,
                   gffVars, runVars>>

(***************************************************************************)
(* SpecSeq: one call of get_seq_region_stats on any list within the bounds *)
(***************************************************************************)
InitSeq ==
    /\ \E hi \in {0, 1} : seq_regions \in ListsUpTo(Descriptors(hi), MaxSeqRegions)
    /\ seq_i = 0
    /\ coord_systems = EmptyDict
    /\ circular = 0
    /\ locations = <<>>
    /\ codon_tables = <<>>
    /\ seq_stats = <<>>
    /\ seq_pc = "loop"
    /\ GffIdle
    /\ RunIdle

NextSeq == SeqRegionLoop \/ SeqRegionReturn

SpecSeq == InitSeq /\ [][NextSeq]_vars


(***************************************************************************)
(* Sequence-Region Analyzer: what the claims speak of.                     *)
(***************************************************************************)
\* the descriptors the loop has consumed
Consumed == SubSeq(seq_regions, 1, seq_i)

RECURSIVE Select(_, _)
\* the descriptors of ds that carry the key k, in order
Select(ds, k) ==
    IF ds = <<>> THEN <<>>
    ELSE (IF k \in DOMAIN Head(ds) THEN <<Head(ds)>> ELSE <<>>) \o Select(Tail(ds), k)

RECURSIVE LengthsOfLevel(_, _)
\* the lengths of the descriptors of ds whose coord_system_level is v, in order
LengthsOfLevel(ds, v) ==
    IF ds = <<>> THEN <<>>
    ELSE (IF Head(ds)["coord_system_level"] = v THEN <<Head(ds)["length"]>> ELSE <<>>)
         \o LengthsOfLevel(Tail(ds), v)

RECURSIVE FirstSeen(_, _)
\* the coord_system_levels of ds in the order of their first appearance, after those in seen
FirstSeen(ds, seen) ==
    IF ds = <<>> THEN <<>>
    ELSE LET v == Head(ds)["coord_system_level"]
         IN IF v \in seen THEN FirstSeen(Tail(ds), seen)
            ELSE <<v>> \o FirstSeen(Tail(ds), seen \cup {v})

\* the descriptor carries a synonym list with an entry whose source is GenBank
HasGenBankEntry(d) ==
    /\ "synonyms" \in DOMAIN d
    /\ \E i \in DOMAIN d["synonyms"] : d["synonyms"][i].source = "GenBank"

\* the name of the first entry in list order whose source is GenBank
FirstGenBankName(d) ==
    d["synonyms"][Min({i \in DOMAIN d["synonyms"] : d["synonyms"][i].source = "GenBank"})].name

\* the number of groups the report announces
ReportedGroups == seq_stats[2].vals[1]

\* the k-th numeric row of the g-th group of the report (the groups follow the two
\* heading lines, each a header and five rows)
Row(g, k) == seq_stats[2 + 6 * (g - 1) + 1 + k]

\* the level named by the header of the g-th group of the report
ReportedLevel(g) == seq_stats[2 + 6 * (g - 1) + 1].vals[1]

RECURSIVE SumRows(_, _)
\* the sum of the k-th row over the first g groups of the report
SumRows(g, k) == IF g = 0 THEN IntNum(0) ELSE NumAdd(Row(g, k).vals[1], SumRows(g - 1, k))

\* the descriptor lacks a key the loop body reads for it
Malformed(d) ==
    \/ "coord_system_level" \notin DOMAIN d
    \/ "length" \notin DOMAIN d
    \/ "name" \notin DOMAIN d /\ ~(HasGenBankEntry(d) /\ FirstGenBankName(d) # "")

\* the descriptor lacks one of the three keys the specification requires
LacksRequiredKey(d) ==
    \/ "coord_system_level" \notin DOMAIN d
    \/ "length" \notin DOMAIN d
    \/ "name" \notin DOMAIN d

\* C3 (as amended): a list with a descriptor that lacks coord_system_level or length,
\* or that lacks name and has no GenBank synonym whose first entry has a non-empty
\* name, ends in KeyError with no lines returned; the failure comes at the first such
\* descriptor, and a list without one is never failed.  (A descriptor that lacks only
\* name and has such a GenBank synonym is processed.)
C3_MalformedRaises ==
    /\ \A i \in 1..seq_i : ~Malformed(seq_regions[i])
    /\ seq_pc = "returned" => \A i \in DOMAIN seq_regions : ~Malformed(seq_regions[i])
    /\ seq_pc = "raised" => seq_stats = <<>> /\ Malformed(seq_regions[seq_i + 1])
    /\ seq_pc = "loop" /\ seq_i = 0 => seq_stats = <<>>

\* C3 as stated: a list with a descriptor lacking coord_system_level, length or name
\* is never answered with a report, whatever else the descriptor carries.
C3_AnyMissingKeyRaises ==
    seq_pc = "returned" => \A i \in DOMAIN seq_regions : ~LacksRequiredKey(seq_regions[i])

\* C3 witness: the analyzer failed on a descriptor that has a GenBank synonym and
\* lacks its length
C3_Witness ==
    /\ seq_pc = "raised"
    /\ HasGenBankEntry(seq_regions[seq_i + 1])
    /\ "length" \notin DOMAIN seq_regions[seq_i + 1]
    /\ "name" \in DOMAIN seq_regions[seq_i + 1]

\* C5: every consumed descriptor's length is in the group of its own level and in no
\* other (each group is the list of the lengths of its level, in input order), no
\* group is empty, and in the report the "Number of sequences" rows sum to the number
\* of descriptors and the "Sequence length sum" rows to the sum of the input lengths.
C5_LengthsPartition ==
    /\ Keys(coord_systems) = FirstSeen(Consumed, {})
    /\ \A g \in DOMAIN coord_systems :
          /\ coord_systems[g].value # <<>>
          /\ coord_systems[g].value = LengthsOfLevel(Consumed, coord_systems[g].key)
    /\ seq_pc = "returned" =>
          /\ ReportedGroups = Len(coord_systems)
          /\ \A g \in 1..ReportedGroups :
                /\ Row(g, 1).vals[2] = "Number of sequences"
                /\ Row(g, 2).vals[2] = "Sequence length sum"
          /\ SumRows(ReportedGroups, 1) = IntNum(Len(seq_regions))
          /\ SumRows(ReportedGroups, 2)
                = sum([i \in DOMAIN seq_regions |-> seq_regions[i]["length"]])

\* C5 witness: a report on two descriptors of one level with different lengths
C5_Witness ==
    /\ seq_pc = "returned"
    /\ Len(seq_regions) = 2
    /\ seq_regions[1]["coord_system_level"] = seq_regions[2]["coord_system_level"]
    /\ seq_regions[1]["length"] # seq_regions[2]["length"]

\* the display name C6 states for a descriptor
C6_DisplayName(d) == IF HasGenBankEntry(d) THEN FirstGenBankName(d) ELSE d["name"]

\* C6 as stated: the location and codon-table lines of a descriptor with a GenBank
\* synonym show the name of its first GenBank entry, whatever that name is, and
\* those of every other descriptor its own name.
C6_FirstGenBankName ==
    /\ locations =
          [i \in DOMAIN Select(Consumed, "location") |->
             Format("%s = %s", <<C6_DisplayName(Select(Consumed, "location")[i]),
                                 Select(Consumed, "location")[i]["location"]>>)]
    /\ codon_tables =
          [i \in DOMAIN Select(Consumed, "codon_table") |->
             Format("%s = %s", <<C6_DisplayName(Select(Consumed, "codon_table")[i]),
                                 Select(Consumed, "codon_table")[i]["codon_table"]>>)]

\* the lines C8 states for the Special section and the end of the report
C8_Tail ==
    LET circ == Len(Select(seq_regions, "circular"))
        locs == Select(seq_regions, "location")
        tabs == Select(seq_regions, "codon_table")
    IN IF circ > 0 \/ locs # <<>>
       THEN <<"\nSpecial">>
            \o (IF circ > 0 THEN <<"circular sequences">> ELSE <<>>)
            \o (IF locs # <<>> THEN <<"sequences with location">> ELSE <<>>)
            \o [i \in DOMAIN locs |-> locs[i]["location"]]
            \o (IF tabs # <<>> THEN <<"sequences with codon_table">> ELSE <<>>)
            \o [i \in DOMAIN tabs |-> tabs[i]["codon_table"]]
       ELSE <<>>

\* what a line of the report shows: its label, the value of an entry line, or its text
C8_Shown(line) ==
    IF line.fmt = "%9d\t%s" THEN line.vals[2]
    ELSE IF line.fmt = "\t\t\t%s" THEN line.vals[1].vals[2]
    ELSE line.fmt

\* C8: the report has a Special section iff some descriptor is circular or has a
\* location; the section holds, in this order, the circular count (if > 0), the
\* location count and the locations in input order (if any), the codon-table count
\* and the codon tables in input order (if any); without the section no codon table
\* appears in the report.
C8_SpecialSection ==
    seq_pc = "returned" =>
       LET head == 2 + 6 * ReportedGroups
           tail == SubSeq(seq_stats, head + 1, Len(seq_stats) - 1)
           circ == Len(Select(seq_regions, "circular"))
       IN /\ [i \in DOMAIN tail |-> C8_Shown(tail[i])] = C8_Tail
          /\ seq_stats[Len(seq_stats)] = Format("\n", <<>>)
          /\ \A i \in DOMAIN tail :
                /\ C8_Shown(tail[i]) = "circular sequences" => tail[i].vals[1] = circ
                /\ C8_Shown(tail[i]) = "sequences with location"
                      => tail[i].vals[1] = Len(Select(seq_regions, "location"))
                /\ C8_Shown(tail[i]) = "sequences with codon_table"
                      => tail[i].vals[1] = Len(Select(seq_regions, "codon_table"))

\* C8 witness: a report on descriptors of which one has a codon table and none is
\* circular or has a location: the report has no Special section
C8_Witness ==
    /\ seq_pc = "returned"
    /\ Select(seq_regions, "codon_table") # <<>>
    /\ Select(seq_regions, "circular") = <<>>
    /\ Select(seq_regions, "location") = <<>>
    /\ \A i \in DOMAIN seq_stats : seq_stats[i].fmt # "\nSpecial"

\* C10 as stated: in every group of the report minimum <= mean <= maximum, for the
\* mean as computed and as rendered in its row, and the groups are reported in the
\* order in which their levels were first seen.
C10_MeanWithinBounds ==
    seq_pc = "returned" =>
       /\ [g \in 1..ReportedGroups |-> ReportedLevel(g)] = FirstSeen(seq_regions, {})
       /\ \A g \in 1..ReportedGroups :
             /\ Row(g, 3).vals[2] = "Sequence length minimum"
             /\ Row(g, 4).vals[2] = "Sequence length mean"
             /\ Row(g, 5).vals[2] = "Sequence length maximum"
             /\ NumLeq(Row(g, 3).vals[1], Row(g, 4).vals[1])
             /\ NumLeq(Row(g, 4).vals[1], Row(g, 5).vals[1])
             /\ NumLeq(min(coord_systems[g].value), mean(coord_systems[g].value))
             /\ NumLeq(mean(coord_systems[g].value), max(coord_systems[g].value))


(***************************************************************************)
(* The analyzers as whole calls, as run makes them.                        *)
(***************************************************************************)
RECURSIVE CoordSystemsOf(_, _)
\* coord_systems after the loop has consumed the descriptors ds
CoordSystemsOf(cs, ds) ==
    IF ds = <<>> THEN cs ELSE CoordSystemsOf(AddLength(cs, Head(ds)), Tail(ds))

RECURSIVE Recorded(_, _)
\* locations (k = "location") or codon_tables (k = "codon_table") after the loop
Recorded(ds, k) ==
    IF ds = <<>> THEN <<>>
    ELSE (IF k \in DOMAIN Head(ds)
          THEN <<Format("%s = %s", <<seqr_name(Head(ds)), Head(ds)[k]>>)>>
          ELSE <<>>) \o Recorded(Tail(ds), k)

\* get_seq_region_stats raises on this list
SeqRegionRaises(ds) == \E i \in DOMAIN ds : KeyError(ds[i])

\* get_seq_region_stats on a list it does not raise on
get_seq_region_stats(file_name, ds) ==
    RenderSeqRegions(file_name, CoordSystemsOf(EmptyDict, ds),
                     Cardinality({i \in DOMAIN ds : "circular" \in DOMAIN ds[i]}),
                     Recorded(ds, "location"), Recorded(ds, "codon_table"))

\* get_gff3_stats: the file name, the lines of parse_gff3, a blank line; a name
\* ending in .gz is read through gzip, which yields the same stream
get_gff3_stats(file_name, recs) ==
    <<Format(file_name, <<>>)>> \o parse_gff3(recs) \o <<Format("\n", <<>>)>>

(***************************************************************************)
(* Report Assembler: run.                                                  *)
(***************************************************************************)
ManifestDir == "genome_dir"

\* manifest_root / file_name
PathJoin(root, file_name) == [path |-> <<root, file_name>>]

\* path.name
PathName(p) == p.path[Len(p.path)]

\* an entry of the manifest that names one file
FileEntry(file_name) == "file" :> file_name

\* the manifests: with and without gff3 (naming a file, or compound), with and
\* without seq_region, with and without a compound dataset the analyzers ignore
Manifests ==
    { g @@ r @@ o :
        g \in {EmptyDict, "gff3" :> FileEntry("gene_models.gff3.gz"),
               "gff3" :> ("part1" :> FileEntry("gene_models.gff3"))},
        r \in {EmptyDict, "seq_region" :> FileEntry(SeqRegionFile)},
        o \in {EmptyDict, "agp" :> ("scaffold" :> FileEntry("scaffold.agp")
                                     @@ "note" :> ("comment" :> "none"))} }

\* lines 53-63 for one dataset: a file entry becomes a path; in a compound entry
\* each sub-entry with a file becomes the tuple (manifest_root, file_name)
ResolveEntry(root, entry) ==
    IF "file" \in DOMAIN entry
    THEN PathJoin(root, entry["file"])
    ELSE [f \in DOMAIN entry |->
            IF "file" \in DOMAIN entry[f]
            THEN [tuple |-> <<root, entry[f]["file"]>>]
            ELSE entry[f]]

\* get_manifest, once get_json has returned the document
get_manifest(root, raw) == [name \in DOMAIN raw |-> ResolveEntry(root, raw[name])]

\* Path(x) accepts x: it is a path (a dict or a tuple raises TypeError)
IsPath(x) == DOMAIN x = {"path"}

\* stats += more, with the bug of putting the new lines first
Extend_front(list, more) == more \o list

\* stats += more
Extend(list, more) == list \o more

RECURSIVE Join(_)
\* "\n".join(lines): the lines with a newline between each two
Join(lines) ==
    IF lines = <<>> THEN <<>>
    ELSE IF Len(lines) = 1 THEN lines
    ELSE <<Head(lines), Format("\n", <<>>)>> \o Join(Tail(lines))

\* line 34: param_required raises when the parameter is missing
ParamRequired ==
    /\ pc = "param_required"
    /\ calls' = Append(calls, "param_required")
    /\ pc' = IF "manifest" \in DOMAIN param THEN "get_manifest" ELSE "failed"
    /\ UNCHANGED <<param, manifest, stats, stats_txt, prior_txt, gffVars, seqVars>>

\* line 35: the manifest is read and resolved; line 37: stats starts empty
GetManifest ==
    /\ pc = "get_manifest"
    /\ calls' = Append(calls, "get_manifest")
    /\ manifest' = get_manifest(ManifestDir, manifest)
    /\ stats' = <<>>
    /\ pc' = "gff3"
    /\ UNCHANGED <<param, stats_txt, prior_txt, gffVars, seqVars>>

\* line 35: get_json raises (the manifest is unreadable or no JSON)
GetManifestRaises ==
    /\ pc = "get_manifest"
    /\ calls' = Append(calls, "get_manifest")
    /\ pc' = "failed"
    /\ UNCHANGED <<param, manifest, stats, stats_txt, prior_txt, gffVars, seqVars>>

\* lines 38-39: the gff3 analyzer runs if the manifest has the key
RunGff3 ==
    /\ pc = "gff3"
    /\ IF "gff3" \notin DOMAIN manifest
       THEN pc' = "seq_region" /\ UNCHANGED <<stats, calls>>
       ELSE IF ~IsPath(manifest["gff3"])
       THEN pc' = "failed" /\ UNCHANGED <<stats, calls>>
       ELSE /\ calls' = Append(calls, "get_gff3_stats")
            /\ stats' = Extend(stats, get_gff3_stats(PathName(manifest["gff3"]), records))
            /\ pc' = "seq_region"
    /\ UNCHANGED <<param, manifest, stats_txt, prior_txt, gffVars, seqVars>>

\* lines 38-39: the gff3 analyzer raises (the file is missing, no gzip, or no GFF3)
RunGff3Raises ==
    /\ pc = "gff3"
    /\ "gff3" \in DOMAIN manifest
    /\ IsPath(manifest["gff3"])
    /\ calls' = Append(calls, "get_gff3_stats")
    /\ pc' = "failed"
    /\ UNCHANGED <<param, manifest, stats, stats_txt, prior_txt, gffVars, seqVars>>

\* lines 40-41: the seq_region analyzer runs if the manifest has the key; it raises
\* on a descriptor that lacks a key it reads
RunSeqRegion ==
    /\ pc = "seq_region"
    /\ IF "seq_region" \notin DOMAIN manifest
       THEN pc' = "open" /\ UNCHANGED <<stats, calls>>
       ELSE /\ calls' = Append(calls, "get_seq_region_stats")
            /\ IF SeqRegionRaises(seq_regions)
               THEN pc' = "failed" /\ UNCHANGED stats
               ELSE /\ stats' = Extend(stats,
                                       get_seq_region_stats(PathName(manifest["seq_region"]),
                                                            seq_regions))
                    /\ pc' = "open"
    /\ UNCHANGED <<param, manifest, stats_txt, prior_txt, gffVars, seqVars>>

\* lines 40-41: get_json raises in the seq_region analyzer
RunSeqRegionRaises ==
    /\ pc = "seq_region"
    /\ "seq_region" \in DOMAIN manifest
    /\ calls' = Append(calls, "get_seq_region_stats")
    /\ pc' = "failed"
    /\ UNCHANGED <<param, manifest, stats, stats_txt, prior_txt, gffVars, seqVars>>

\* line 45: open("w") creates stats.txt or truncates it
OpenStats ==
    /\ pc = "open"
    /\ calls' = Append(calls, "open")
    /\ stats_txt' = File(<<>>)
    /\ pc' = "write"
    /\ UNCHANGED <<param, manifest, stats, prior_txt, gffVars, seqVars>>

\* line 45: open("w") raises (the path is not writable); the file is not touched
OpenStatsRaises ==
    /\ pc = "open"
    /\ calls' = Append(calls, "open")
    /\ pc' = "failed"
    /\ UNCHANGED <<param, manifest, stats, stats_txt, prior_txt, gffVars, seqVars>>

\* line 46: the joined text is written and the file closed
WriteStats ==
    /\ pc = "write"
    /\ calls' = Append(calls, "write")
    /\ stats_txt' = File(Join(stats))
    /\ pc' = "done"
    /\ UNCHANGED <<param, manifest, stats, prior_txt, gffVars, seqVars>>

\* line 46: write or the closing flush raises (the text cannot be encoded, the disk
\* is full); the truncated file holds what reached it, some prefix of the text
WriteStatsRaises ==
    /\ pc = "write"
    /\ calls' = Append(calls, "write")
    /\ \E k \in 0..Len(Join(stats)) : stats_txt' = File(SubSeq(Join(stats), 1, k))
    /\ pc' = "failed"
    /\ UNCHANGED <<param, manifest, stats, prior_txt, gffVars, seqVars>>

(***************************************************************************)
(* Spec: one call of run.                                                  *)
(***************************************************************************)
\* the seq_region files of the runs: empty, one or two sound descriptors, one that
\* lacks its length
RunSeqRegionLists ==
    LET one == [hi |-> 0, num |-> 1, den |-> 1]
        chr1 == Required("chr1", "chromosome", one) @@ ("location" :> "mitochondrial_chromosome")
                  @@ ("synonyms" :> <<GenBank("CM000001.1")>>)
        scaf == Required("2", "scaffold", one)
    IN {<<>>, <<chr1>>, <<scaf, chr1>>, <<chr1, Without(scaf, "length")>>}

Init ==
    /\ pc = "param_required"
    /\ param \in {EmptyDict, "manifest" :> PathJoin(ManifestDir, "manifest.json")}
    /\ manifest \in Manifests
    /\ stats = <<>>
    /\ prior_txt \in {Absent, File(<<Format("an earlier report", <<>>)>>)}
    /\ stats_txt = prior_txt
    /\ calls = <<>>
    /\ GffInput(1)
    /\ nvisited = 0
    /\ biotypes = EmptyDict
    /\ gff_stats = <<>>
    /\ gff_pc = "idle"
    /\ seq_regions \in RunSeqRegionLists
    /\ seq_i = 0
    /\ coord_systems = EmptyDict
    /\ circular = 0
    /\ locations = <<>>
    /\ codon_tables = <<>>
    /\ seq_stats = <<>>
    /\ seq_pc = "idle"

Next ==
    \/ ParamRequired
    \/ GetManifest
    \/ GetManifestRaises
    \/ RunGff3
    \/ RunGff3Raises
    \/ RunSeqRegion
    \/ RunSeqRegionRaises
    \/ OpenStats
    \/ OpenStatsRaises
    \/ WriteStats
    \/ WriteStatsRaises

Spec == Init /\ [][Next]_vars


(***************************************************************************)
(* Report Assembler: what the claims speak of.                             *)
(***************************************************************************)
\* the positions in calls at which the call named c was made
CallsOf(c) == {i \in DOMAIN calls : calls[i] = c}

\* the lines the gff3 analyzer gives for this run's gff3 file
GffSection == get_gff3_stats(PathName(manifest["gff3"]), records)

\* the lines the seq_region analyzer gives for this run's seq_region file
SeqSection == get_seq_region_stats(PathName(manifest["seq_region"]), seq_regions)

\* C2 as stated: a run that ends in a failure at any step leaves stats.txt as it was
\* before the run, absent or with its earlier content.
C2_FailureLeavesOutput == pc = "failed" => stats_txt = prior_txt

\* C7: the manifest is resolved once and before any analyzer; an analyzer is called
\* only if the manifest has its key, and a run that reaches the write has called
\* exactly those whose key it has; gff3 is called before seq_region; stats.txt is
\* opened and written once, after every analyzer call; the text written is the gff3
\* lines followed by the seq_region lines, and the empty text when neither key is
\* present.
C7_RunOrder ==
    /\ Cardinality(CallsOf("get_manifest")) <= 1
    /\ Cardinality(CallsOf("get_gff3_stats")) <= 1
    /\ Cardinality(CallsOf("get_seq_region_stats")) <= 1
    /\ Cardinality(CallsOf("write")) <= 1
    /\ \A a \in CallsOf("get_gff3_stats") \cup CallsOf("get_seq_region_stats") :
          /\ \E m \in CallsOf("get_manifest") : m < a
          /\ \A w \in CallsOf("open") \cup CallsOf("write") : a < w
    /\ \A g \in CallsOf("get_gff3_stats") : \A r \in CallsOf("get_seq_region_stats") : g < r
    /\ CallsOf("get_gff3_stats") # {} => "gff3" \in DOMAIN manifest
    /\ CallsOf("get_seq_region_stats") # {} => "seq_region" \in DOMAIN manifest
    /\ stats_txt # prior_txt => CallsOf("open") # {}
    /\ pc \in {"open", "write", "done"} =>
          /\ Cardinality(CallsOf("get_manifest")) = 1
          /\ CallsOf("get_gff3_stats") # {} <=> "gff3" \in DOMAIN manifest
          /\ CallsOf("get_seq_region_stats") # {} <=> "seq_region" \in DOMAIN manifest
    /\ pc = "done" =>
          /\ calls[Len(calls)] = "write"
          /\ stats_txt =
                File(Join((IF "gff3" \in DOMAIN manifest THEN GffSection ELSE <<>>)
                          \o (IF "seq_region" \in DOMAIN manifest THEN SeqSection ELSE <<>>)))
          /\ ("gff3" \notin DOMAIN manifest /\ "seq_region" \notin DOMAIN manifest)
                => stats_txt = File(<<>>)

\* C7 witness: a run with both datasets wrote its report
C7_Witness ==
    /\ pc = "done"
    /\ CallsOf("get_gff3_stats") # {}
    /\ CallsOf("get_seq_region_stats") # {}
    /\ Len(stats_txt.text) > Len(GffSection)

=============================================================================
